---- MODULE Spec2Model ----
(***************************************************************************)
(* A model of the page-enhancement scripts of markdown-helper/mermaid:     *)
(* the de-duplicating asset loader (loadScript, loadCSS) and the icon-pack *)
(* registrar (fetchIconsJson, buildIconPack, registerMermaidIcons) of      *)
(* src/icons.js, and the sidebar table of contents of src/unnamed/part_003 *)
(* (ensureIds, buildTree, renderNodes, setupHighlight, init).  Everything runs on the browser's single-threaded event   *)
(* loop: one action of the model is one task of that loop (a call made by  *)
(* the page, a load or error event, a zero-delay timer, a settled fetch).  *)
(***************************************************************************)
EXTENDS Integers, Sequences, FiniteSets, TLC

VARIABLES
  loadedScripts,  \* icons.js:15   key (absolute URL) -> [element, callbacks]
  document,       \* the script elements of the document, in document order
  window,         \* the names of the globals that are set
  timers,         \* the pending zero-delay timers, in the order they were set
  invoked,        \* history: the callback invocations, in order
  calls,          \* history: the loadScript calls, in order
  console,        \* the console.error lines written
  links,          \* the link elements of the document head, in document order
  cssCalls,       \* history: the loadCSS calls, in order
  mermaidApi,     \* whether window.mermaid, when set, has registerIconPacks()
  iconsJsonCache, \* icons.js:230  cache key -> promise (an index of tasks)
  tasks,          \* the promises fetchIconsJson made, each with its async body
  loads,          \* history: the loader invocations, in order
  registered,     \* the arguments of the calls of mermaid.registerIconPacks
  registrations   \* history: the calls of registerMermaidIcons, in order

\* The sidebar table of contents (src/unnamed/part_003).
VARIABLES
  headings,       \* the heading elements of the container, in document order
  tree,           \* the value of the last call of buildTree, or NoTree
  ensured,        \* history: the headings as the last call of ensureIds got them
  scrollY,        \* window.scrollY
  tocNav,         \* the children of the nav element: the rendered outlines
  highlighters,   \* the closures setupHighlight made: [lastActiveId, ticking, headings]
  frameCallbacks, \* the pending requestAnimationFrame callbacks, in order
  lastEval,       \* history: the last evaluation of computeActive
  counts,         \* history: how many events and evaluations there have been
  container,      \* whether the page has a .crossnote.markdown-preview element
  body,           \* the body: its attribute and the elements the script adds
  localStorage,   \* the value stored under STORAGE_KEY ("null": none)
  clickListeners, \* the number of click listeners on the toggle button
  lastClick       \* history: the last click on the toggle button

pageVars == <<container, body, localStorage, clickListeners, lastClick>>

tocVars == <<headings, tree, ensured, scrollY, tocNav, highlighters,
             frameCallbacks, lastEval, counts, pageVars>>

highlightVars == <<scrollY, tocNav, highlighters, frameCallbacks, lastEval, counts>>

vars == <<loadedScripts, document, window, timers, invoked, calls, console,
          links, cssCalls, mermaidApi, iconsJsonCache, tasks, loads, registered,
          registrations, tocVars>>

iconVars == <<mermaidApi, iconsJsonCache, tasks, loads, registered, registrations>>

loaderVars == <<loadedScripts, document, window, timers, invoked, calls, console>>
cssVars == <<links, cssCalls>>

-----------------------------------------------------------------------------
(* Bounds of the model.                                                    *)

MaxCalls == 2
MaxCssCalls == 3
MaxLoads == 3
MaxRegistrations == 2

-----------------------------------------------------------------------------
(* The table of contents before its script has run.                        *)

NoTree == [built |-> FALSE]

NotEnsured == [ran |-> FALSE]

NoEval == [done |-> FALSE]

NoCounts ==
  [attach |-> 0, scrolls |-> 0, scrollEvals |-> 0, frames |-> 0,
   resizes |-> 0, resizeEvals |-> 0, inits |-> 0, clicks |-> 0, reloads |-> 0]

NoClick == [done |-> FALSE]

\* A body without the attribute and without the script's elements.
EmptyBody == [shown |-> FALSE, buttons |-> 0, asides |-> 0, navs |-> 0]

InitPageIdle ==
  /\ container = FALSE
  /\ body = EmptyBody
  /\ localStorage = "null"
  /\ clickListeners = 0
  /\ lastClick = NoClick

InitHighlightIdle ==
  /\ scrollY = 0
  /\ tocNav = <<>>
  /\ highlighters = <<>>
  /\ frameCallbacks = <<>>
  /\ lastEval = NoEval
  /\ counts = NoCounts

InitTocIdle ==
  /\ headings = <<>>
  /\ tree = NoTree
  /\ ensured = NotEnsured
  /\ InitHighlightIdle
  /\ InitPageIdle

-----------------------------------------------------------------------------
(* URLs.  A URL is a sequence of characters.  The document's base URI is   *)
(* "h:/"; a spelling is absolute when it carries the scheme.               *)

BaseURI == <<"h", ":", "/">>

Alnum == {"a", "b", "h", "s"}

IsAbsolute(u) == Len(u) >= 2 /\ u[2] = ":"

Tail2(u) == SubSeq(u, 3, Len(u))

\* new URL(u, document.baseURI).href
Href(u) ==
  IF IsAbsolute(u) THEN u
  ELSE IF Len(u) >= 2 /\ u[1] = "." /\ u[2] = "/" THEN BaseURI \o Tail2(u)
  ELSE BaseURI \o u

\* s.replace(/[^a-zA-Z0-9]/g, '-')
ReplaceNonAlnum(s) == [i \in 1..Len(s) |-> IF s[i] \in Alnum THEN s[i] ELSE "-"]

ScriptId(absSrc) == <<"script-loader-">> \o ReplaceNonAlnum(absSrc)

LinkId(absHref) == <<"css-loader-">> \o ReplaceNonAlnum(absHref)

\* The spellings the page passes to the loaders: two spellings of h:/a.b,
\* its absolute form, and h:/a-b, a different URL.
Spellings ==
  { <<"a", ".", "b">>,
    <<".", "/", "a", ".", "b">>,
    <<"h", ":", "/", "a", ".", "b">>,
    <<"a", "-", "b">> }

AbsUrls == {Href(u) : u \in Spellings}

-----------------------------------------------------------------------------
(* loadScript (icons.js:33-118).  The loader's state is handled as one     *)
(* record S = [ls, doc, win, tm, inv, calls, con] so that a handler that   *)
(* invokes callbacks, which may call loadScript again, is one step.        *)

NoVar == "none"

\* A console.error line: what failed, and the URL or package it is about.
ErrorLine(what, about) == [what |-> what, about |-> about]

\* A callback: id 0 is "no callback given"; a callback with re = TRUE calls
\* loadScript(src, child) for its own URL when it runs.
NoCb == [id |-> 0, re |-> FALSE, src |-> <<>>]

IsFunction(cb) == cb.id # 0

ChildOf(cb) == [id |-> 0 - cb.id, re |-> FALSE, src |-> <<>>]

\* checkVariable && window[checkVariable]
GlobalSet(win, checkVariable) == checkVariable # NoVar /\ checkVariable \in win

EmptyRecord == [element |-> 0, callbacks |-> <<>>]

\* icons.js:39-41
EnsureBucket(ls, key) == IF key \in DOMAIN ls THEN ls ELSE ls @@ (key :> EmptyRecord)

\* The first of the elements (indices) found, 0 (null) when none is.
FirstIndex(found) ==
  IF found = {} THEN 0 ELSE CHOOSE i \in found : \A j \in found : i <= j

\* As Existing, looking the element up by its id alone.
ExistingByIdOnly(doc, absSrc) ==
  FirstIndex({i \in 1..Len(doc) : doc[i].id = ScriptId(absSrc)})

\* icons.js:58-61
Existing(doc, absSrc) ==
  LET existingById == FirstIndex({i \in 1..Len(doc) : doc[i].id = ScriptId(absSrc)})
      existingExact == FirstIndex({i \in 1..Len(doc) : doc[i].src = absSrc})
      existingByIter == IF existingExact # 0 THEN existingExact
                        ELSE FirstIndex({i \in 1..Len(doc) : Href(doc[i].src) = absSrc})
  IN IF existingById # 0 THEN existingById ELSE existingByIter

Listener(type, fn, key, cb) == [type |-> type, fn |-> fn, key |-> key, cb |-> cb]

\* As GlobalPath, calling the callback at once instead of setting a timer.
GlobalPathSync(S, callback) ==
  IF IsFunction(callback)
  THEN [S EXCEPT !.inv = Append(@, [cb |-> callback.id, via |-> "sync", el |-> 0])]
  ELSE S

\* icons.js:44-47
GlobalPath(S, callback) ==
  IF IsFunction(callback)
  THEN [S EXCEPT !.tm = Append(@, [fn |-> "callback", cb |-> callback,
                                   key |-> <<>>, chk |-> NoVar])]
  ELSE S

\* icons.js:50-55
QueuePath(S, key, callback) ==
  IF IsFunction(callback)
  THEN [S EXCEPT !.ls[key].callbacks = Append(@, callback)]
  ELSE S

\* icons.js:63-94
AdoptPath(S, key, existing, callback, checkVariable) ==
  LET S1 == [S EXCEPT !.ls[key].element = existing]
      S2 == IF ~IsFunction(callback) THEN S1
            ELSE IF GlobalSet(S1.win, checkVariable)
            THEN [S1 EXCEPT !.tm = Append(@, [fn |-> "callback", cb |-> callback,
                                              key |-> <<>>, chk |-> NoVar])]
            ELSE [S1 EXCEPT
                    !.ls[key].callbacks = Append(@, callback),
                    !.doc[existing].listeners =
                        @ \o << Listener("load", "adoptLoad", key, NoCb),
                                Listener("error", "adoptError", key, NoCb) >>]
  IN [S2 EXCEPT !.tm = Append(@, [fn |-> "fallback", cb |-> NoCb,
                                  key |-> key, chk |-> checkVariable])]

\* icons.js:97-117
CreatePath(S, key, absSrc, callback) ==
  LET script == [id |-> ScriptId(absSrc), src |-> absSrc, by |-> "loader",
                 status |-> "loading",
                 listeners |-> << Listener("load", "onLoad", key, callback),
                                  Listener("error", "onError", key, NoCb) >>]
  IN [S EXCEPT !.doc = Append(@, script),
               !.ls[key].element = Len(S.doc) + 1]

\* icons.js:33-118
LoadScript(S, src, callback, checkVariable) ==
  LET absSrc == Href(src)
      key == absSrc
      S0 == [S EXCEPT !.ls = EnsureBucket(@, key)]
      existing == Existing(S0.doc, absSrc)
  IN IF GlobalSet(S0.win, checkVariable) THEN GlobalPath(S0, callback)
     ELSE IF S0.ls[key].element # 0 THEN QueuePath(S0, key, callback)
     ELSE IF existing # 0 THEN AdoptPath(S0, key, existing, callback, checkVariable)
     ELSE CreatePath(S0, key, absSrc, callback)

\* One call of loadScript, with what the call did recorded in the history:
\* ready, status, found and present are read before the call (status is that
\* of the element the record of the URL holds, "none" when it holds none),
\* created, sync and queued after it.
Call(S, src, callback, checkVariable, from) ==
  LET key == Href(src)
      S1 == LoadScript(S, src, callback, checkVariable)
      had == key \in DOMAIN S.ls /\ S.ls[key].element # 0
      inQueue == \E i \in 1..Len(S1.ls[key].callbacks) :
                    S1.ls[key].callbacks[i].id = callback.id
  IN [S1 EXCEPT !.calls = Append(@,
        [src |-> src, key |-> key, cb |-> callback.id, chk |-> checkVariable,
         from |-> from,
         ready |-> GlobalSet(S.win, checkVariable),
         status |-> IF had THEN S.doc[S.ls[key].element].status ELSE "none",
         found |-> Existing(S.doc, key),
         present |-> \E i \in 1..Len(S.doc) : Href(S.doc[i].src) = key,
         created |-> Len(S1.doc) - Len(S.doc),
         sync |-> Len(S1.inv) > Len(S.inv),
         queued |-> IsFunction(callback) /\ inQueue])]

\* cb(): the invocation is recorded; a re-entrant callback calls loadScript.
Invoke(S, cb, via, el) ==
  LET S1 == [S EXCEPT !.inv = Append(@, [cb |-> cb.id, via |-> via, el |-> el])]
  IN IF cb.re THEN Call(S1, cb.src, ChildOf(cb), NoVar, "callback") ELSE S1

\* q.forEach((cb) => cb())
RECURSIVE ForEach(_, _, _, _)
ForEach(S, q, via, el) ==
  IF q = <<>> THEN S
  ELSE ForEach(Invoke(S, Head(q), via, el), Tail(q), via, el)

\* As Drain, iterating the queue without taking its entries out.
DrainNoSplice(S, key, via, el) == ForEach(S, S.ls[key].callbacks, via, el)

\* const q = loadedScripts[key].callbacks.splice(0); q.forEach((cb) => cb())
Drain(S, key, via, el) ==
  LET q == S.ls[key].callbacks
  IN ForEach([S EXCEPT !.ls[key].callbacks = <<>>], q, via, el)

\* As OnLoad, draining the queue before the creating call's callback.
OnLoadQueueFirst(S, key, callback, el) ==
  LET S1 == Drain(S, key, "load", el)
  IN IF IsFunction(callback) THEN Invoke(S1, callback, "load", el) ELSE S1

\* icons.js:102-106
OnLoad(S, key, callback, el) ==
  LET S1 == IF IsFunction(callback) THEN Invoke(S, callback, "load", el) ELSE S
  IN Drain(S1, key, "load", el)

\* As OnError, logging without clearing the queue.
OnErrorKeepQueue(S, key) == [S EXCEPT !.con = Append(@, ErrorLine("script", key))]

\* icons.js:108-111 and 77-80
OnError(S, key) ==
  [S EXCEPT !.con = Append(@, ErrorLine("script", key)), !.ls[key].callbacks = <<>>]

\* As Fallback, draining the queue whether or not the global is set.
FallbackUnchecked(S, key, checkVariable) ==
  IF Len(S.ls[key].callbacks) > 0
  THEN Drain(S, key, "fallback", S.ls[key].element)
  ELSE S

\* icons.js:86-91
Fallback(S, key, checkVariable) ==
  IF GlobalSet(S.win, checkVariable) /\ Len(S.ls[key].callbacks) > 0
  THEN Drain(S, key, "fallback", S.ls[key].element)
  ELSE S

\* One listener of element el runs.
RunListener(S, l, el) ==
  CASE l.fn = "onLoad" -> OnLoad(S, l.key, l.cb, el)
    [] l.fn = "adoptLoad" -> Drain(S, l.key, "load", el)
    [] OTHER -> OnError(S, l.key)

\* The listeners of one event run in the order they were added.
RECURSIVE RunListeners(_, _, _)
RunListeners(S, ls, el) ==
  IF ls = <<>> THEN S
  ELSE RunListeners(RunListener(S, Head(ls), el), Tail(ls), el)

OfType(listeners, type) == SelectSeq(listeners, LAMBDA l : l.type = type)

\* The event `type` is dispatched on element el: its listeners of that type
\* are { once: true }, so they are removed as they run.
Dispatch(S, el, type, status) ==
  LET run == OfType(S.doc[el].listeners, type)
      S1 == [S EXCEPT !.doc[el].listeners = SelectSeq(@, LAMBDA l : l.type # type),
                      !.doc[el].status = status]
  IN RunListeners(S1, run, el)

\* A zero-delay timer runs.
RunTimer(S, t) ==
  IF t.fn = "callback" THEN Invoke(S, t.cb, "timer", 0)
  ELSE Fallback(S, t.key, t.chk)

-----------------------------------------------------------------------------
(* The loader's actions: one task of the event loop each.                  *)

St == [ls |-> loadedScripts, doc |-> document, win |-> window, tm |-> timers,
       inv |-> invoked, calls |-> calls, con |-> console]

Commit(S) ==
  /\ loadedScripts' = S.ls
  /\ document' = S.doc
  /\ window' = S.win
  /\ timers' = S.tm
  /\ invoked' = S.inv
  /\ calls' = S.calls
  /\ console' = S.con

PageCalls(cs) == SelectSeq(cs, LAMBDA c : c.from = "page")

CheckVariables == {NoVar, "mermaid"}

CbKinds == {"none", "plain"}

\* The callback the page passes on its n-th call.
Callback(n, kind, src) ==
  IF kind = "none" THEN NoCb
  ELSE [id |-> n, re |-> (kind = "reenter"), src |-> IF kind = "reenter" THEN src ELSE <<>>]

\* The page calls loadScript(src, callback, checkVariable).
CallLoadScript ==
  \E src \in Spellings, kind \in CbKinds, checkVariable \in CheckVariables :
    /\ Len(PageCalls(calls)) < MaxCalls
    /\ Commit(Call(St, src, Callback(Len(PageCalls(calls)) + 1, kind, src),
                   checkVariable, "page"))
    /\ UNCHANGED <<cssVars, iconVars, tocVars>>

\* The load event of a script element.
ScriptLoad ==
  \E el \in 1..Len(document) :
    /\ document[el].status = "loading"
    /\ Commit(Dispatch(St, el, "load", "loaded"))
    /\ UNCHANGED <<cssVars, iconVars, tocVars>>

\* The error event of a script element.
ScriptError ==
  \E el \in 1..Len(document) :
    /\ document[el].status = "loading"
    /\ Commit(Dispatch(St, el, "error", "failed"))
    /\ UNCHANGED <<cssVars, iconVars, tocVars>>

\* The oldest zero-delay timer runs.
TimerFire ==
  /\ timers # <<>>
  /\ Commit(RunTimer([St EXCEPT !.tm = Tail(@)], Head(timers)))
  /\ UNCHANGED <<cssVars, iconVars, tocVars>>

\* Some script of the page defines the readiness global.
SetGlobal ==
  /\ "mermaid" \notin window
  /\ window' = window \cup {"mermaid"}
  /\ UNCHANGED <<loadedScripts, document, timers, invoked, calls, console>>
  /\ UNCHANGED <<cssVars, iconVars, tocVars>>

\* A script element of the page's own markup, for h:/a.b.
PageScript(src, status) ==
  [id |-> <<>>, src |-> src, by |-> "page", status |-> status, listeners |-> <<>>]

PageDocuments ==
  {<<>>} \cup
  { <<PageScript(src, status)>> :
      src \in { <<"a", ".", "b">>, <<"h", ":", "/", "a", ".", "b">> },
      status \in {"loading", "loaded"} }

InitCss ==
  /\ links = <<>>
  /\ cssCalls = <<>>

InitIconsIdle ==
  /\ mermaidApi = TRUE
  /\ iconsJsonCache = <<>>
  /\ tasks = <<>>
  /\ loads = <<>>
  /\ registered = <<>>
  /\ registrations = <<>>

InitLoader ==
  /\ loadedScripts = <<>>
  /\ document \in PageDocuments
  /\ window \in {{}, {"mermaid"}}
  /\ timers = <<>>
  /\ invoked = <<>>
  /\ calls = <<>>
  /\ console = <<>>

Init == InitLoader /\ InitCss /\ InitIconsIdle /\ InitTocIdle

Next ==
  \/ CallLoadScript
  \/ ScriptLoad
  \/ ScriptError
  \/ TimerFire
  \/ SetGlobal

Spec == Init /\ [][Next]_vars

-----------------------------------------------------------------------------
(* loadCSS (icons.js:132-150).  A link element is [id, rel, href, by];     *)
(* href is the attribute as written, Href(href) the property the browser   *)
(* resolves.                                                               *)

\* document.getElementById(linkId)
LinkById(head, linkId) == \E i \in 1..Len(head) : head[i].id = linkId

\* document.querySelector(`link[rel="stylesheet"][href="${absHref}"]`)
LinkBySelector(head, absHref) ==
  \E i \in 1..Len(head) : head[i].rel = "stylesheet" /\ head[i].href = absHref

\* Array.from(document.querySelectorAll('link[rel="stylesheet"]')).some(l => l.href === absHref)
LinkByProperty(head, absHref) ==
  \E i \in 1..Len(head) : head[i].rel = "stylesheet" /\ Href(head[i].href) = absHref

\* As AlreadyLinked, checking the generated id alone.
AlreadyLinkedByIdOnly(head, absHref) == LinkById(head, LinkId(absHref))

\* icons.js:137-143: the three checks that skip the insertion
AlreadyLinked(head, absHref) ==
  \/ LinkById(head, LinkId(absHref))
  \/ LinkBySelector(head, absHref)
  \/ LinkByProperty(head, absHref)

\* icons.js:132-150
LoadCSS(head, url) ==
  LET absHref == Href(url)
      link == [id |-> LinkId(absHref), rel |-> "stylesheet", href |-> absHref,
               by |-> "loader"]
  IN IF AlreadyLinked(head, absHref) THEN head ELSE Append(head, link)

\* The page calls loadCSS(url); the call is recorded with what it found
\* before (a stylesheet link with its id, or with its absolute href) and
\* with the number of elements it inserted.
CallLoadCSS ==
  \E url \in Spellings :
    /\ Len(cssCalls) < MaxCssCalls
    /\ links' = LoadCSS(links, url)
    /\ cssCalls' = Append(cssCalls,
         [url |-> url, abs |-> Href(url),
          byId |-> \E i \in 1..Len(links) :
                     links[i].rel = "stylesheet" /\ links[i].id = LinkId(Href(url)),
          byHref |-> \E i \in 1..Len(links) :
                     links[i].rel = "stylesheet" /\ Href(links[i].href) = Href(url),
          inserted |-> Len(LoadCSS(links, url)) - Len(links)])
    /\ UNCHANGED <<loaderVars, iconVars, tocVars>>

\* A link element of the page's own markup, for h:/a.b.
PageLink(rel, href) == [id |-> <<>>, rel |-> rel, href |-> href, by |-> "page"]

PageHeads ==
  {<<>>} \cup
  { <<PageLink(rel, href)>> :
      rel \in {"stylesheet", "preload"},
      href \in { <<"a", ".", "b">>, <<"h", ":", "/", "a", ".", "b">> } }

InitCssPage ==
  /\ links \in PageHeads
  /\ cssCalls = <<>>

InitLoaderIdle ==
  /\ loadedScripts = <<>>
  /\ document = <<>>
  /\ window = {}
  /\ timers = <<>>
  /\ invoked = <<>>
  /\ calls = <<>>
  /\ console = <<>>

NextCss == CallLoadCSS

InitStyles == InitCssPage /\ InitLoaderIdle /\ InitIconsIdle /\ InitTocIdle

SpecCss == InitStyles /\ [][NextCss]_vars

-----------------------------------------------------------------------------
(* The icon-pack registrar (icons.js:230-320).  A task is one promise      *)
(* fetchIconsJson returned, with the position of its async body:           *)
(*   phase "fetch"  awaiting fetch(urls[i])                                *)
(*   phase "json"   awaiting res.json() of the response to urls[i]         *)
(*   phase "fulfilled" / "rejected"  the promise is settled with value     *)
(* fetched and log are history: the URLs fetched, and how each ended       *)
(* ("good": an ok response with a parseable body; "fail": anything else).  *)

DefaultVersions == <<"1", "2", "">>

\* The payload served at a URL (opaque JSON), and the empty object {}.
Payload(url) == url
EmptyPayload == "{}"

\* versionCandidates.join(',')
RECURSIVE Join(_)
Join(versions) ==
  IF versions = <<>> THEN ""
  ELSE IF Len(versions) = 1 THEN versions[1]
  ELSE versions[1] \o "," \o Join(Tail(versions))

\* icons.js:239
CacheKey(pkg, versions) == pkg \o "|" \o Join(versions)

\* icons.js:242-246
Url(pkg, v) ==
  IF v # "" THEN "https://cdn.jsdelivr.net/npm/" \o pkg \o "@" \o v \o "/icons.json"
  ELSE "https://cdn.jsdelivr.net/npm/" \o pkg \o "/icons.json"

Urls(pkg, versions) == [k \in 1..Len(versions) |-> Url(pkg, versions[k])]

\* As Catch, letting the rejection through.
CatchRethrow(R, t) == [R EXCEPT !.tasks[t].phase = "rejected"]

\* icons.js:259-263: the .catch handler logs and resolves to {}
Catch(R, t) ==
  [R EXCEPT !.tasks[t].phase = "fulfilled",
            !.tasks[t].value = EmptyPayload,
            !.con = Append(@, ErrorLine("pack", R.tasks[t].pkg))]

\* icons.js:249-258: the loop moves to the candidate after urls[i]; past the
\* last one the body throws, which the .catch handler takes.
TryNext(R, t) ==
  LET i == R.tasks[t].i + 1
  IN IF i <= Len(R.tasks[t].urls)
     THEN [R EXCEPT !.tasks[t].i = i,
                    !.tasks[t].phase = "fetch",
                    !.tasks[t].res = "none",
                    !.tasks[t].fetched = Append(@, R.tasks[t].urls[i])]
     ELSE Catch([R EXCEPT !.tasks[t].i = i, !.tasks[t].res = "none"], t)

\* As FetchSettled, without the check of res.ok.
FetchSettledNoOkCheck(R, t, outcome) ==
  IF outcome = "reject"
  THEN TryNext([R EXCEPT !.tasks[t].log = Append(@, "fail")], t)
  ELSE [R EXCEPT !.tasks[t].phase = "json", !.tasks[t].res = outcome]

\* icons.js:251-252: fetch(url) settled: rejected, or a response that is
\* ok or not.
FetchSettled(R, t, outcome) ==
  IF outcome = "reject"
  THEN TryNext([R EXCEPT !.tasks[t].log = Append(@, "fail")], t)
  ELSE IF outcome = "notok"
  THEN TryNext([R EXCEPT !.tasks[t].log = Append(@, "fail")], t)
  ELSE [R EXCEPT !.tasks[t].phase = "json", !.tasks[t].res = "ok"]

\* icons.js:253: res.json() settled: the parsed payload, or a rejection.
JsonSettled(R, t, outcome) ==
  LET how == IF R.tasks[t].res = "ok" /\ outcome = "good" THEN "good" ELSE "fail"
      R1 == [R EXCEPT !.tasks[t].log = Append(@, how)]
  IN IF outcome = "good"
     THEN [R1 EXCEPT !.tasks[t].phase = "fulfilled",
                     !.tasks[t].value = Payload(R.tasks[t].urls[R.tasks[t].i])]
     ELSE TryNext(R1, t)

\* As Cached, never finding an entry.
CachedNever(cache, cacheKey) == FALSE

\* icons.js:240
Cached(cache, cacheKey) == cacheKey \in DOMAIN cache

\* As FetchIconsJson, starting over when the cached promise has resolved to
\* the empty payload.
FetchIconsJsonRetryFailed(R, pkg, versionCandidates) ==
  LET cacheKey == CacheKey(pkg, versionCandidates)
      t == Len(R.tasks) + 1
      task == [pkg |-> pkg, versions |-> versionCandidates,
               urls |-> Urls(pkg, versionCandidates),
               i |-> 0, phase |-> "start", res |-> "none",
               fetched |-> <<>>, log |-> <<>>, value |-> "none"]
      R1 == [R EXCEPT !.tasks = Append(@, task)]
      R2 == TryNext(R1, t)
  IN IF Cached(R.cache, cacheKey) /\ R.tasks[R.cache[cacheKey]].value # EmptyPayload
     THEN [R EXCEPT !.ret = R.cache[cacheKey]]
     ELSE [R2 EXCEPT !.cache = (cacheKey :> t) @@ @, !.ret = t]

\* icons.js:238-267: the promise returned; the async body runs up to its
\* first await inside the call.
FetchIconsJson(R, pkg, versionCandidates) ==
  LET cacheKey == CacheKey(pkg, versionCandidates)
      t == Len(R.tasks) + 1
      task == [pkg |-> pkg, versions |-> versionCandidates,
               urls |-> Urls(pkg, versionCandidates),
               i |-> 0, phase |-> "start", res |-> "none",
               fetched |-> <<>>, log |-> <<>>, value |-> "none"]
      R1 == [R EXCEPT !.tasks = Append(@, task)]
      R2 == TryNext(R1, t)
  IN IF Cached(R.cache, cacheKey)
     THEN [R EXCEPT !.ret = R.cache[cacheKey]]
     ELSE [R2 EXCEPT !.cache = (cacheKey :> t) @@ @, !.ret = t]

\* icons.js:282-288
BuildIconPack(name, pkg, options) ==
  [name |-> name, pkg |-> pkg,
   versions |-> IF options # <<>> THEN options ELSE DefaultVersions]

\* icons.js:306-316
IconPacks ==
  << BuildIconPack("logos", "@iconify-json/logos", <<>>),
     BuildIconPack("fa", "@iconify-json/fa", <<>>),
     BuildIconPack("fa7-solid", "@iconify-json/fa7-solid", <<>>),
     BuildIconPack("mdi", "@iconify-json/mdi", <<>>),
     BuildIconPack("material-symbols", "@iconify-json/material-symbols", <<>>),
     BuildIconPack("fluent", "@iconify-json/fluent", <<>>) >>

\* As MermaidReady, testing the global alone.
MermaidReadyGlobalOnly(win, api) == "mermaid" \in win

\* icons.js:295: window.mermaid && typeof window.mermaid.registerIconPacks === 'function'
MermaidReady(win, api) == "mermaid" \in win /\ api

\* icons.js:294-320.  A call of registerIconPacks on an object that has no
\* such function throws.
RegisterMermaidIcons(R, win, api) ==
  IF ~MermaidReady(win, api)
  THEN [R EXCEPT !.con = Append(@, ErrorLine("mermaid", "")), !.ret = "returned"]
  ELSE IF "mermaid" \in win /\ api
  THEN [R EXCEPT !.registered = Append(@, IconPacks), !.ret = "returned"]
  ELSE [R EXCEPT !.ret = "threw"]

Rt == [tasks |-> tasks, cache |-> iconsJsonCache, con |-> console,
       registered |-> registered, ret |-> 0]

CommitIcons(R) ==
  /\ tasks' = R.tasks
  /\ iconsJsonCache' = R.cache
  /\ console' = R.con
  /\ registered' = R.registered

\* The packs whose icons the diagrams of the page use.
UsedPacks == {"logos"}

\* A pack the page builds with its own preference order (icons.js:315).
CustomPack ==
  BuildIconPack("material-symbols", "@iconify-json/material-symbols", <<"2", "1">>)

\* The packs a loader can be invoked for: those registered that the page
\* uses, and the page's own.
Loadable ==
  {CustomPack} \cup
  { registered[n][k] : n \in 1..Len(registered), k \in 1..Len(IconPacks) }

\* pack.loader() is invoked (icons.js:286).  The invocation is recorded with
\* the promise it got and the phase of that promise, with whether a task
\* for its key had failed on every candidate before it (failed), and with
\* whether it started no task (hit) and changed none (idle).
InvokeLoader ==
  \E pack \in Loadable :
    /\ pack.name \in UsedPacks \cup {CustomPack.name}
    /\ Len(loads) < MaxLoads
    /\ LET R == FetchIconsJson(Rt, pack.pkg, pack.versions)
       IN /\ CommitIcons(R)
          /\ loads' = Append(loads, [pkg |-> pack.pkg, versions |-> pack.versions,
                                     promise |-> R.ret,
                                     failed |-> \E t \in 1..Len(tasks) :
                                       /\ tasks[t].pkg = pack.pkg
                                       /\ tasks[t].versions = pack.versions
                                       /\ Len(tasks[t].log) = Len(pack.versions)
                                       /\ \A k \in 1..Len(tasks[t].log) :
                                            tasks[t].log[k] = "fail",
                                     hit |-> Len(R.tasks) = Len(tasks),
                                     idle |-> R.tasks = tasks,
                                     phase |-> R.tasks[R.ret].phase])
    /\ UNCHANGED <<loadedScripts, document, window, timers, invoked, calls>>
    /\ UNCHANGED <<cssVars, mermaidApi, registrations, tocVars>>

\* The fetch a task awaits settles.
FetchSettles ==
  \E t \in 1..Len(tasks), outcome \in {"reject", "notok", "ok"} :
    /\ tasks[t].phase = "fetch"
    /\ CommitIcons(FetchSettled(Rt, t, outcome))
    /\ UNCHANGED <<loadedScripts, document, window, timers, invoked, calls>>
    /\ UNCHANGED <<cssVars, mermaidApi, loads, registrations, tocVars>>

\* The res.json() a task awaits settles.
JsonSettles ==
  \E t \in 1..Len(tasks), outcome \in {"good", "bad"} :
    /\ tasks[t].phase = "json"
    /\ CommitIcons(JsonSettled(Rt, t, outcome))
    /\ UNCHANGED <<loadedScripts, document, window, timers, invoked, calls>>
    /\ UNCHANGED <<cssVars, mermaidApi, loads, registrations, tocVars>>

\* registerMermaidIcons() is called; the call is recorded with what held
\* before it and with what it did.
CallRegisterMermaidIcons ==
  /\ Len(registrations) < MaxRegistrations
  /\ LET R == RegisterMermaidIcons(Rt, window, mermaidApi)
     IN /\ CommitIcons(R)
        /\ registrations' = Append(registrations,
             [global |-> "mermaid" \in window, api |-> mermaidApi,
              ret |-> R.ret,
              calls |-> Len(R.registered) - Len(registered),
              fetches |-> Len(R.tasks) - Len(tasks),
              logged |-> Len(R.con) - Len(console)])
  /\ UNCHANGED <<loadedScripts, document, window, timers, invoked, calls>>
  /\ UNCHANGED <<cssVars, mermaidApi, loads, tocVars>>

\* The script that defines window.mermaid has run.
MermaidDefined ==
  /\ "mermaid" \notin window
  /\ window' = window \cup {"mermaid"}
  /\ UNCHANGED <<loadedScripts, document, timers, invoked, calls, console>>
  /\ UNCHANGED <<cssVars, iconVars, tocVars>>

InitIcons ==
  /\ mermaidApi \in BOOLEAN
  /\ iconsJsonCache = <<>>
  /\ tasks = <<>>
  /\ loads = <<>>
  /\ registered = <<>>
  /\ registrations = <<>>

NextIcons ==
  \/ CallRegisterMermaidIcons
  \/ MermaidDefined
  \/ InvokeLoader
  \/ FetchSettles
  \/ JsonSettles

InitRegistrar ==
  /\ InitIcons
  /\ loadedScripts = <<>>
  /\ document = <<>>
  /\ window \in {{}, {"mermaid"}}
  /\ timers = <<>>
  /\ invoked = <<>>
  /\ calls = <<>>
  /\ console = <<>>
  /\ InitCss
  /\ InitTocIdle

SpecIcons == InitRegistrar /\ [][NextIcons]_vars

-----------------------------------------------------------------------------
(* What the claims about loadScript read off the state.                    *)

Elements == 1..Len(document)

CallIds == 1..Len(calls)

\* The callbacks (ids) the calls cs registered, in call order.
Registered(cs) ==
  LET sel == SelectSeq(cs, LAMBDA c : c.cb # 0)
  IN [i \in 1..Len(sel) |-> sel[i].cb]

\* The calls for key that went past the readiness check before / after the
\* element of key stopped loading.
Before(key, c) == c.key = key /\ ~c.ready /\ c.status \in {"none", "loading"}
After(key, c) == c.key = key /\ ~c.ready /\ c.status \in {"loaded", "failed"}

RegisteredBefore(key) == Registered(SelectSeq(calls, LAMBDA c : Before(key, c)))
RegisteredAfter(key) == Registered(SelectSeq(calls, LAMBDA c : After(key, c)))

\* The call that registered callback id.
CallOf(id) == calls[CHOOSE i \in CallIds : calls[i].cb = id]

Ids(seq) == [i \in 1..Len(seq) |-> seq[i].cb]

\* The callbacks registered for key past the readiness check that have been
\* invoked, in invocation order.
InvokedFor(key) ==
  Ids(SelectSeq(invoked, LAMBDA e : CallOf(e.cb).key = key /\ ~CallOf(e.cb).ready))

TimesInvoked(id) == Cardinality({i \in 1..Len(invoked) : invoked[i].cb = id})

TimesPending(id) ==
  Cardinality({i \in 1..Len(timers) : timers[i].fn = "callback" /\ timers[i].cb.id = id})

QueueIds(key) ==
  [i \in 1..Len(loadedScripts[key].callbacks) |-> loadedScripts[key].callbacks[i].id]

\* The elements loadScript created for key.
CreatedFor(key) ==
  {el \in Elements : document[el].by = "loader" /\ document[el].src = key}

-----------------------------------------------------------------------------
-----------------------------------------------------------------------------
(* C2: a call made with a readiness global that is already set never runs  *)
(* its callback before it returns; the callback runs exactly once, from a  *)
(* zero-delay timer (it is pending until then); the call creates no script *)
(* element and puts nothing in a queue.                                    *)
C2_ReadyGlobalDefersCallback ==
  \A i \in CallIds :
    calls[i].ready =>
      /\ ~calls[i].sync
      /\ calls[i].created = 0
      /\ ~calls[i].queued
      /\ calls[i].cb # 0 =>
           /\ TimesInvoked(calls[i].cb) + TimesPending(calls[i].cb) = 1
           /\ \A j \in 1..Len(invoked) :
                invoked[j].cb = calls[i].cb => invoked[j].via = "timer"
           /\ \A key \in DOMAIN loadedScripts :
                \A j \in 1..Len(QueueIds(key)) : QueueIds(key)[j] # calls[i].cb

\* A call found the global set, and its callback has run from its timer.
C2_Witness ==
  \E i \in CallIds :
    /\ calls[i].ready
    /\ calls[i].cb # 0
    /\ TimesInvoked(calls[i].cb) = 1
    /\ TimesPending(calls[i].cb) = 0

-----------------------------------------------------------------------------
(* C3: once the error event of the element loadScript created for a URL    *)
(* has fired, no callback registered for that URL (the creating call's or  *)
(* a queued one) has been or is ever invoked, the error is logged, the     *)
(* queue was emptied by the event (it holds only what later calls added),  *)
(* and no later call creates another element for the URL.                  *)
C3_ErrorDropsCallbacksNoRetry ==
  \A el \in Elements :
    (document[el].by = "loader" /\ document[el].status = "failed") =>
      LET key == document[el].src
      IN /\ \A i \in CallIds :
              (calls[i].key = key /\ ~calls[i].ready /\ calls[i].cb # 0) =>
                TimesInvoked(calls[i].cb) = 0
         /\ QueueIds(key) = RegisteredAfter(key)
         /\ \E n \in 1..Len(console) : console[n] = ErrorLine("script", key)
         /\ \A i \in CallIds :
              (calls[i].key = key /\ calls[i].status = "failed") => calls[i].created = 0
         /\ CreatedFor(key) = {el}

\* The error event fired with a callback in the queue behind the creating
\* call's: both are dropped.
C3_Witness ==
  \E el \in Elements :
    /\ document[el].by = "loader"
    /\ document[el].status = "failed"
    /\ Len(RegisteredBefore(document[el].src)) >= 2
    /\ QueueIds(document[el].src) = <<>>
    /\ invoked = <<>>

-----------------------------------------------------------------------------
(* C4: no callback is invoked more than once per registration, and a       *)
(* callback that was put in a queue is invoked only by the load event of   *)
(* the element its URL's record holds or, when that element was adopted    *)
(* from the document, by the adopting call's timer once the readiness      *)
(* global is set.                                                          *)
Adopting(key, c) == c.key = key /\ ~c.ready /\ c.status = "none" /\ c.found # 0

C4_AtMostOnceAfterLoad ==
  /\ \A i \in CallIds : calls[i].cb # 0 => TimesInvoked(calls[i].cb) <= 1
  /\ \A j \in 1..Len(invoked) :
       LET e == invoked[j]
           c == CallOf(e.cb)
       IN c.queued =>
            \/ /\ e.via = "load"
               /\ e.el = loadedScripts[c.key].element
               /\ document[e.el].status = "loaded"
            \/ /\ e.via = "fallback"
               /\ \E i \in CallIds :
                    Adopting(c.key, calls[i]) /\ GlobalSet(window, calls[i].chk)

\* A queued callback was flushed by the timer of the adopting call, and the
\* load event of the adopted element fired afterwards.
C4_Witness ==
  \E j \in 1..Len(invoked) :
    /\ invoked[j].via = "fallback"
    /\ document[invoked[j].el].status = "loaded"
    /\ TimesInvoked(invoked[j].cb) = 1

-----------------------------------------------------------------------------
(* C5: the document never holds two script elements for one absolute URL;  *)
(* records are keyed by absolute URLs, the calls for the spellings of one  *)
(* URL create one element between them, and a call made when the document  *)
(* already holds a script element with that absolute src creates none.     *)
C5_OneElementPerUrl ==
  /\ \A el1, el2 \in Elements :
       Href(document[el1].src) = Href(document[el2].src) => el1 = el2
  /\ \A key \in DOMAIN loadedScripts : IsAbsolute(key)
  /\ \A i, j \in CallIds :
       (calls[i].key = calls[j].key /\ calls[i].created = 1 /\ calls[j].created = 1)
         => i = j
  /\ \A i \in CallIds :
       /\ calls[i].created \in {0, 1}
       /\ calls[i].present => calls[i].created = 0

\* A script of the page's markup with a relative src, and a call that spells
\* the same URL in absolute form.
C5_Witness ==
  \E i \in CallIds :
    /\ calls[i].present
    /\ ~calls[i].ready
    /\ calls[i].status = "none"
    /\ document[calls[i].found].src # calls[i].src
    /\ Href(document[calls[i].found].src) = Href(calls[i].src)

-----------------------------------------------------------------------------
(* C6: loadCSS is idempotent.  A call that finds a stylesheet link with    *)
(* its generated id or its absolute href inserts nothing; a call inserts   *)
(* at most one link; and after any calls for the spellings of one URL the  *)
(* head holds exactly one stylesheet link with that absolute href (unless  *)
(* the first of them found its id on a link for another URL, and so        *)
(* inserted nothing).                                                      *)
StylesheetsFor(abs) ==
  {i \in 1..Len(links) : links[i].rel = "stylesheet" /\ Href(links[i].href) = abs}

FirstCssCall(abs) ==
  cssCalls[CHOOSE i \in 1..Len(cssCalls) :
             cssCalls[i].abs = abs /\ \A j \in 1..(i - 1) : cssCalls[j].abs # abs]

C6_LoadCssIdempotent ==
  /\ \A i \in 1..Len(cssCalls) :
       /\ cssCalls[i].inserted \in {0, 1}
       /\ (cssCalls[i].byId \/ cssCalls[i].byHref) => cssCalls[i].inserted = 0
  /\ \A abs \in {cssCalls[i].abs : i \in 1..Len(cssCalls)} :
       /\ Cardinality({i \in 1..Len(cssCalls) :
                         cssCalls[i].abs = abs /\ cssCalls[i].inserted = 1}) <= 1
       /\ (FirstCssCall(abs).byHref \/ ~FirstCssCall(abs).byId) =>
            Cardinality(StylesheetsFor(abs)) = 1

\* Three calls with two spellings of one URL, with no stylesheet link for it
\* in the page: the first inserted the link, the others nothing.
C6_Witness ==
  /\ Len(cssCalls) = 3
  /\ \A i \in 1..3 : cssCalls[i].abs = cssCalls[1].abs
  /\ cssCalls[1].url # cssCalls[2].url
  /\ cssCalls[1].inserted = 1
  /\ cssCalls[2].inserted = 0
  /\ cssCalls[3].inserted = 0
  /\ Cardinality(StylesheetsFor(cssCalls[1].abs)) = 1

-----------------------------------------------------------------------------
(* What the claims about the registrar read off the state.                 *)

Tasks == 1..Len(tasks)

\* The candidate URLs of a task, from its package and its version list.
Candidates(T) == [k \in 1..Len(T.versions) |-> Url(T.pkg, T.versions[k])]

AllFailed(T) ==
  Len(T.log) = Len(T.versions) /\ \A k \in 1..Len(T.log) : T.log[k] = "fail"

SameKey(a, b) == a.pkg = b.pkg /\ a.versions = b.versions

-----------------------------------------------------------------------------
(* C7: a task fetches its candidate URLs in the order of the version list, *)
(* one at a time (at most one fetch is outstanding), each only after every *)
(* earlier one has failed; the first good response ends the task, which    *)
(* resolves to the payload of that candidate, and nothing is fetched after *)
(* it.                                                                     *)
C7_CandidatesInOrder ==
  \A t \in Tasks :
    LET T == tasks[t]
        n == Len(T.fetched)
    IN /\ n <= Len(T.versions)
       /\ T.fetched = SubSeq(Candidates(T), 1, n)
       /\ Len(T.log) = IF T.phase \in {"fetch", "json"} THEN n - 1 ELSE n
       /\ \A k \in 1..Len(T.log) :
            IF k < n THEN T.log[k] = "fail"
            ELSE T.log[k] = "good" =>
                   T.phase = "fulfilled" /\ T.value = Payload(Candidates(T)[k])
       /\ (T.phase = "fulfilled" /\ T.value # EmptyPayload) =>
            (n >= 1 /\ T.log[n] = "good")

\* A task whose first two candidates failed and whose third answered: it
\* resolved to the third candidate's payload.
C7_Witness ==
  \E t \in Tasks :
    /\ tasks[t].log = <<"fail", "fail", "good">>
    /\ tasks[t].phase = "fulfilled"
    /\ tasks[t].value = Payload(Url(tasks[t].pkg, ""))

-----------------------------------------------------------------------------
(* C8: the loader invocations for one (package, version list) all get the  *)
(* same promise, so the same payload, also when they overlap with the      *)
(* pending fetch; there is one task for the key, and it fetches each       *)
(* candidate URL at most once.                                             *)
C8_CachedPerKey ==
  /\ \A a, b \in 1..Len(loads) :
       SameKey(loads[a], loads[b]) => loads[a].promise = loads[b].promise
  /\ \A a \in 1..Len(loads) :
       /\ loads[a].promise \in Tasks
       /\ SameKey(loads[a], tasks[loads[a].promise])
       /\ loads[a].hit <=> \E b \in 1..(a - 1) : SameKey(loads[a], loads[b])
  /\ \A t1, t2 \in Tasks : SameKey(tasks[t1], tasks[t2]) => t1 = t2
  /\ \A t \in Tasks :
       \A i, j \in 1..Len(tasks[t].fetched) :
         tasks[t].fetched[i] = tasks[t].fetched[j] => i = j

\* A second invocation arrived while the first one's fetch was pending; the
\* task has since resolved to a payload, fetched once.
C8_Witness ==
  \E a, b \in 1..Len(loads) :
    /\ a < b
    /\ SameKey(loads[a], loads[b])
    /\ loads[b].hit
    /\ loads[b].phase \in {"fetch", "json"}
    /\ tasks[loads[b].promise].phase = "fulfilled"
    /\ tasks[loads[b].promise].value # EmptyPayload

-----------------------------------------------------------------------------
(* C9: a task never rejects; when every candidate has failed it resolves   *)
(* to the empty payload and an error is logged for its package, and only   *)
(* then; a task with a good response resolves to that payload whatever     *)
(* happened to the other tasks.                                            *)
C9_AllFailResolvesEmpty ==
  \A t \in Tasks :
    LET T == tasks[t]
    IN /\ T.phase # "rejected"
       /\ AllFailed(T) =>
            /\ T.phase = "fulfilled"
            /\ T.value = EmptyPayload
            /\ \E n \in 1..Len(console) : console[n] = ErrorLine("pack", T.pkg)
       /\ (T.phase = "fulfilled" /\ T.value = EmptyPayload) => AllFailed(T)
       /\ \A k \in 1..Len(T.log) :
            T.log[k] = "good" =>
              T.phase = "fulfilled" /\ T.value = Payload(Url(T.pkg, T.versions[k]))

\* One pack failed on every candidate and resolved to {}; another pack,
\* started before it, resolved to its own payload.
C9_Witness ==
  \E t1, t2 \in Tasks :
    /\ t1 < t2
    /\ tasks[t2].phase = "fulfilled"
    /\ tasks[t2].value = EmptyPayload
    /\ tasks[t1].phase = "fulfilled"
    /\ tasks[t1].value # EmptyPayload
    /\ tasks[t1].pkg # tasks[t2].pkg

-----------------------------------------------------------------------------
(* C10: a call of registerMermaidIcons returns normally and starts no      *)
(* fetch; when window.mermaid is absent or has no registerIconPacks        *)
(* function it registers nothing and logs one error; otherwise it calls    *)
(* registerIconPacks once, with the six packs of the list.                 *)
PackNames(packs) == [k \in 1..Len(packs) |-> packs[k].name]

C10_RegisterGuard ==
  /\ \A n \in 1..Len(registrations) :
       LET r == registrations[n]
       IN /\ r.ret = "returned"
          /\ r.fetches = 0
          /\ ~(r.global /\ r.api) => (r.calls = 0 /\ r.logged = 1)
          /\ (r.global /\ r.api) => (r.calls = 1 /\ r.logged = 0)
  /\ Len(registered) =
       Cardinality({n \in 1..Len(registrations) :
                      registrations[n].global /\ registrations[n].api})
  /\ \A m \in 1..Len(registered) :
       PackNames(registered[m]) =
         <<"logos", "fa", "fa7-solid", "mdi", "material-symbols", "fluent">>

\* A call made before window.mermaid was defined did nothing but log; a
\* call made after it registered the packs.
C10_Witness ==
  /\ Len(registrations) = 2
  /\ ~registrations[1].global
  /\ registrations[1].calls = 0
  /\ registrations[2].global
  /\ registrations[2].calls = 1
  /\ Len(registered) = 1

-----------------------------------------------------------------------------
(* The sidebar table of contents, src/unnamed/part_003.                    *)
(*                                                                         *)
(* A heading element is a record [tagName, textContent, id, offsetTop];    *)
(* strings the script edits (text, identifiers) are sequences of           *)
(* characters.  buildTree's nodes are named by the position of their       *)
(* heading in the input, and 0 names the synthetic root.                   *)

MaxHeadings == 5

\* part_003:8
LEVELS == [H1 |-> 1, H2 |-> 2, H3 |-> 3, H4 |-> 4, H5 |-> 5, H6 |-> 6]

TagNames == DOMAIN LEVELS

\* LEVELS[h.tagName] || 6
Level(h) == IF h.tagName \in DOMAIN LEVELS THEN LEVELS[h.tagName] ELSE 6

\* const root = { children: [], level: 0 }
Root == [children |-> <<>>, level |-> 0]

NodeLevel(hs, k) == IF k = 0 THEN Root.level ELSE Level(hs[k])

\* const stack = [root]; no node has children yet.  low is the shortest
\* the stack has been when a node was attached, threw whether attaching
\* found the stack empty (stack[-1].children is a TypeError).
EmptyTree(hs) ==
  [built |-> TRUE, children |-> [k \in 0..Len(hs) |-> Root.children],
   stack |-> <<0>>, low |-> 1, threw |-> FALSE]

PopOnce(stack, hs, level) ==
  IF Len(stack) > 0 /\ NodeLevel(hs, stack[Len(stack)]) >= level
  THEN SubSeq(stack, 1, Len(stack) - 1)
  ELSE stack

RECURSIVE PopWhileGreater(_, _, _)
PopWhileGreater(stack, hs, level) ==
  IF Len(stack) > 0 /\ NodeLevel(hs, stack[Len(stack)]) > level
  THEN PopWhileGreater(SubSeq(stack, 1, Len(stack) - 1), hs, level)
  ELSE stack

\* while (stack.length && stack[stack.length - 1].level >= level) stack.pop()
RECURSIVE PopWhile(_, _, _)
PopWhile(stack, hs, level) ==
  IF Len(stack) > 0 /\ NodeLevel(hs, stack[Len(stack)]) >= level
  THEN PopWhile(SubSeq(stack, 1, Len(stack) - 1), hs, level)
  ELSE stack

AttachFirst(children, parent, node) ==
  [children EXCEPT ![parent] = <<node>> \o @]

\* stack[stack.length - 1].children.push(node)
Attach(children, parent, node) ==
  [children EXCEPT ![parent] = Append(@, node)]

\* One turn of headings.forEach in buildTree, for the heading at position i.
BuildStep(T, hs, i) ==
  LET st == PopWhile(T.stack, hs, Level(hs[i]))
  IN IF T.threw THEN T
     ELSE IF st = <<>> THEN [T EXCEPT !.stack = st, !.low = 0, !.threw = TRUE]
     ELSE [T EXCEPT !.children = Attach(T.children, st[Len(st)], i),
                    !.stack = Append(st, i),
                    !.low = IF Len(st) < @ THEN Len(st) ELSE @]

RECURSIVE BuildFrom(_, _, _)
BuildFrom(T, hs, i) ==
  IF i > Len(hs) THEN T ELSE BuildFrom(BuildStep(T, hs, i), hs, i + 1)

\* buildTree(headings); the forest it returns is children[0].
BuildTree(hs) == BuildFrom(EmptyTree(hs), hs, 1)

-----------------------------------------------------------------------------
(* buildTree on its own: every sequence of up to MaxHeadings headings.     *)

TreeHeading(tag) ==
  [tagName |-> tag, textContent |-> <<"a">>, id |-> <<"a">>, offsetTop |-> 0]

TreePages ==
  UNION { [1..n -> {TreeHeading(tag) : tag \in TagNames}] : n \in 0..MaxHeadings }

CallBuildTree ==
  /\ tree = NoTree
  /\ tree' = BuildTree(headings)
  /\ UNCHANGED <<headings, ensured, highlightVars, pageVars, loaderVars, cssVars, iconVars>>

InitTree ==
  /\ headings \in TreePages
  /\ tree = NoTree
  /\ ensured = NotEnsured
  /\ InitHighlightIdle
  /\ InitPageIdle
  /\ InitLoaderIdle
  /\ InitCss
  /\ InitIconsIdle

NextTree == CallBuildTree

SpecTree == InitTree /\ [][NextTree]_vars

-----------------------------------------------------------------------------
(* Reading a forest.                                                       *)

Levels(hs) == [i \in 1..Len(hs) |-> Level(hs[i])]

Forest(T) == T.children[0]

\* The node whose children hold node i (0: i is a top-level node).
ParentOf(T, i) ==
  CHOOSE k \in DOMAIN T.children : \E j \in 1..Len(T.children[k]) : T.children[k][j] = i

\* How many times node i occurs among the children of the forest's nodes.
Occurrences(T, i) ==
  Cardinality({ <<k, j>> \in (DOMAIN T.children) \X (DOMAIN T.children) :
                  j \in 1..Len(T.children[k]) /\ T.children[k][j] = i })

RECURSIVE PreOrder(_, _)
PreOrder(T, ks) ==
  IF ks = <<>> THEN <<>>
  ELSE <<Head(ks)>> \o PreOrder(T, T.children[Head(ks)]) \o PreOrder(T, Tail(ks))

\* The nearest heading before position i whose level is strictly lower, or 0.
NearestLower(hs, i) ==
  LET lower == {j \in 1..(i - 1) : Level(hs[j]) < Level(hs[i])}
  IN IF lower = {} THEN 0 ELSE CHOOSE j \in lower : \A k \in lower : k <= j

-----------------------------------------------------------------------------
(* C11: on headings with levels [1,2,3,2,1] buildTree returns two          *)
(* top-level nodes; the first has two children, both of level 2, the first *)
(* of them with one childless child of level 3 and the second with none;   *)
(* the second top-level node has no children.                              *)
C11_TreeOf12321 ==
  (tree.built /\ Levels(headings) = <<1, 2, 3, 2, 1>>) =>
    LET top == Forest(tree)
    IN /\ ~tree.threw
       /\ top = <<1, 5>>
       /\ tree.children[1] = <<2, 4>>
       /\ tree.children[2] = <<3>>
       /\ tree.children[3] = <<>>
       /\ tree.children[4] = <<>>
       /\ tree.children[5] = <<>>

\* buildTree has returned for headings with these levels.
C11_Witness ==
  /\ tree.built
  /\ Levels(headings) = <<1, 2, 3, 2, 1>>
  /\ Len(Forest(tree)) = 2

\* C11 as stated: the first top-level node has one child (level 2), which
\* has one child (level 3); the second top-level node has none.
C11_AsStated ==
  (tree.built /\ Levels(headings) = <<1, 2, 3, 2, 1>>) =>
    LET top == Forest(tree)
    IN /\ Len(top) = 2
       /\ Len(tree.children[top[1]]) = 1
       /\ Level(headings[tree.children[top[1]][1]]) = 2
       /\ Len(tree.children[tree.children[top[1]][1]]) = 1
       /\ Level(headings[tree.children[tree.children[top[1]][1]][1]]) = 3
       /\ tree.children[top[2]] = <<>>

-----------------------------------------------------------------------------
(* C12: for every sequence of heading levels in 1..6, buildTree makes each *)
(* heading a child of the nearest preceding heading of strictly lower      *)
(* level, and a top-level node when there is none; so every child's level  *)
(* is strictly greater than its parent's.                                  *)
C12_ChildOfNearestLower ==
  tree.built =>
    /\ ~tree.threw
    /\ \A i \in 1..Len(headings) :
         /\ Occurrences(tree, i) >= 1
         /\ ParentOf(tree, i) = NearestLower(headings, i)
         /\ NodeLevel(headings, ParentOf(tree, i)) < Level(headings[i])

\* A heading attached under a node that is not the heading just before it,
\* after deeper headings were popped, and a later top-level heading.
C12_Witness ==
  /\ tree.built
  /\ \E i, j \in 1..Len(headings) :
       /\ i < j
       /\ ParentOf(tree, i) # 0
       /\ ParentOf(tree, i) < i - 1
       /\ ParentOf(tree, j) = 0
       /\ \E k \in 1..(j - 1) : Level(headings[k]) > Level(headings[j])

-----------------------------------------------------------------------------
(* C13: the forest buildTree returns holds each heading exactly once, its  *)
(* pre-order traversal is the input order, every node's parent precedes it *)
(* in the input, and the working stack never becomes empty (the root is    *)
(* never popped).                                                          *)
C13_ForestKeepsDocumentOrder ==
  tree.built =>
    /\ ~tree.threw
    /\ tree.low >= 1
    /\ tree.stack # <<>>
    /\ tree.stack[1] = 0
    /\ \A i \in 1..Len(headings) :
         /\ Occurrences(tree, i) = 1
         /\ ParentOf(tree, i) < i
    /\ PreOrder(tree, Forest(tree)) = [i \in 1..Len(headings) |-> i]

\* A forest with a node of two children and two top-level nodes: the stack
\* went back down to the root alone in between.
C13_Witness ==
  /\ tree.built
  /\ Len(Forest(tree)) >= 2
  /\ \E k \in 1..Len(headings) : Len(tree.children[k]) >= 2
  /\ PreOrder(tree, Forest(tree)) = [i \in 1..Len(headings) |-> i]

-----------------------------------------------------------------------------
(* ensureIds.  Texts and identifiers are sequences of characters: "A"      *)
(* stands for the letters toLowerCase changes, " " for white space, "!"    *)
(* for the characters that are neither word characters nor hyphens.        *)

MaxText == 3

TextChars == {"A", " ", "!", "-"}

WhiteSpace == {" "}

\* \w
WordChars ==
  {"A", "a", "k", "3", "_", "s", "e", "c", "t", "i", "o", "n", "X", "d", "f", "r"}

ToLowerCase(t) == [i \in 1..Len(t) |-> IF t[i] = "A" THEN "a" ELSE t[i]]

RECURSIVE TrimStart(_)
TrimStart(t) ==
  IF t # <<>> /\ Head(t) \in WhiteSpace THEN TrimStart(Tail(t)) ELSE t

RECURSIVE TrimEnd(_)
TrimEnd(t) ==
  IF t # <<>> /\ t[Len(t)] \in WhiteSpace
  THEN TrimEnd(SubSeq(t, 1, Len(t) - 1))
  ELSE t

\* (h.textContent || '').trim()
Trim(t) == TrimEnd(TrimStart(t))

\* .replace(/\s+/g, '-')
RECURSIVE ReplaceSpaceRuns(_)
ReplaceSpaceRuns(t) ==
  IF t = <<>> THEN <<>>
  ELSE IF Head(t) \in WhiteSpace
       THEN <<"-">> \o ReplaceSpaceRuns(TrimStart(t))
       ELSE <<Head(t)>> \o ReplaceSpaceRuns(Tail(t))

IsWordOrHyphen(c) == c \in WordChars \/ c = "-"

\* The same replacement without the g flag: only the first run goes.
RECURSIVE RemoveFirstNonWordRun(_)
RemoveFirstNonWordRun(t) ==
  IF t = <<>> THEN <<>>
  ELSE IF IsWordOrHyphen(Head(t))
       THEN <<Head(t)>> \o RemoveFirstNonWordRun(Tail(t))
       ELSE IF Len(t) >= 2 /\ ~IsWordOrHyphen(t[2])
            THEN RemoveFirstNonWordRun(Tail(t))
            ELSE Tail(t)

\* .replace(/[^\w\-]+/g, '')
RemoveNonWord(t) == SelectSeq(t, IsWordOrHyphen)

\* text.toLowerCase().replace(/\s+/g, '-').replace(/[^\w\-]+/g, '')
Slug(text) == RemoveNonWord(ReplaceSpaceRuns(ToLowerCase(text)))

\* Math.random().toString(36).slice(2): some digits in base 36, or none
\* when Math.random() returns 0.
RandomSuffixes == { <<>>, <<"k", "3">> }

\* `section-${...}`
Section(suffix) == <<"s", "e", "c", "t", "i", "o", "n", "-">> \o suffix

EnsureIdAlways(h, suffix) ==
  LET id == Slug(Trim(h.textContent))
  IN [h EXCEPT !.id = IF id # <<>> THEN id ELSE Section(suffix)]

\* The body of headings.forEach in ensureIds, for the heading h.
EnsureId(h, suffix) ==
  LET id == Slug(Trim(h.textContent))
  IN IF h.id = <<>>
     THEN [h EXCEPT !.id = IF id # <<>> THEN id ELSE Section(suffix)]
     ELSE h

\* ensureIds(headings); suffixes[i] is what Math.random() gives for heading i.
EnsureIds(hs, suffixes) == [i \in 1..Len(hs) |-> EnsureId(hs[i], suffixes[i])]

-----------------------------------------------------------------------------
(* ensureIds on its own: one heading with any text of up to MaxText        *)
(* characters, with or without an identifier of its own, alone or followed *)
(* by a second heading.                                                    *)

Texts == UNION { [1..n -> TextChars] : n \in 0..MaxText }

IdHeading(text, id) ==
  [tagName |-> "H2", textContent |-> text, id |-> id, offsetTop |-> 0]

IdHeadings == { IdHeading(text, id) : text \in Texts, id \in { <<>>, <<"X">> } }

IdPages ==
  { <<>> } \cup { <<h>> : h \in IdHeadings }
  \cup { <<h, g>> : h \in IdHeadings,
                    g \in { IdHeading(<<"A">>, <<>>), IdHeading(<<"!">>, <<"X">>) } }

CallEnsureIds ==
  /\ ~ensured.ran
  /\ \E suffixes \in [1..Len(headings) -> RandomSuffixes] :
       headings' = EnsureIds(headings, suffixes)
  /\ ensured' = [ran |-> TRUE, before |-> headings]
  /\ UNCHANGED <<tree, highlightVars, pageVars, loaderVars, cssVars, iconVars>>

InitIds ==
  /\ headings \in IdPages
  /\ tree = NoTree
  /\ ensured = NotEnsured
  /\ InitHighlightIdle
  /\ InitPageIdle
  /\ InitLoaderIdle
  /\ InitCss
  /\ InitIconsIdle

NextIds == CallEnsureIds

SpecIds == InitIds /\ [][NextIds]_vars

-----------------------------------------------------------------------------
(* C18: the slug function of ensureIds is idempotent: the slug of a slug   *)
(* is that slug, for the text of every heading, and every identifier       *)
(* ensureIds made from a slug is its own slug.                             *)
C18_SlugIdempotent ==
  ensured.ran =>
    \A i \in 1..Len(headings) :
      /\ Slug(Slug(ensured.before[i].textContent)) =
           Slug(ensured.before[i].textContent)
      /\ (ensured.before[i].id = <<>> /\ Slug(Trim(headings[i].textContent)) # <<>>) =>
           Slug(headings[i].id) = headings[i].id

\* ensureIds gave a heading a slug that differs from its text: lowercased,
\* with a hyphen for white space and a character removed on each side.
C18_Witness ==
  /\ ensured.ran
  /\ \E i \in 1..Len(headings) :
       /\ ensured.before[i].id = <<>>
       /\ ensured.before[i].textContent = <<"!", "A", "!">>
       /\ headings[i].id = <<"a">>
  /\ \E t \in Texts : Slug(t) = <<"a", "-", "a">>

-----------------------------------------------------------------------------
(* C19: ensureIds never changes the identifier of a heading that has a     *)
(* non-empty one; after it every heading has a non-empty identifier, the   *)
(* slug of its trimmed text or, when that is empty, a generated fallback;  *)
(* the headings, their order and their number are otherwise unchanged.     *)
C19_EnsureIdsKeepsExisting ==
  ensured.ran =>
    /\ Len(headings) = Len(ensured.before)
    /\ \A i \in 1..Len(headings) :
         LET was == ensured.before[i]
             now == headings[i]
         IN /\ now.tagName = was.tagName
            /\ now.textContent = was.textContent
            /\ now.offsetTop = was.offsetTop
            /\ was.id # <<>> => now.id = was.id
            /\ now.id # <<>>
            /\ was.id = <<>> =>
                 IF Slug(Trim(was.textContent)) # <<>>
                 THEN now.id = Slug(Trim(was.textContent))
                 ELSE \E suffix \in RandomSuffixes : now.id = Section(suffix)

\* Two headings: the first kept the identifier it had although its text has
\* a slug of its own, the second got one.
C19_Witness ==
  /\ ensured.ran
  /\ Len(headings) = 2
  /\ ensured.before[1].id = <<"X">>
  /\ Slug(Trim(ensured.before[1].textContent)) = <<"a", "-", "a">>
  /\ headings[1].id = <<"X">>
  /\ ensured.before[2].id = <<>>
  /\ headings[2].id = <<"a">>

-----------------------------------------------------------------------------
(* renderNodes and setupHighlight.  The operators below work on a record D *)
(* of the table of contents' state and return the record after the call.   *)

\* null, as the value of lastActiveId and active
Null == <<"null">>

\* if (id), !active
Truthy(id) == id # Null /\ id # <<>>

\* The a element renderNodes makes for the node of heading k.
Anchor(T, hs, k) ==
  [href |-> <<"#">> \o hs[k].id, textContent |-> Trim(hs[k].textContent),
   details |-> T.children[k] # <<>>, open |-> Level(hs[k]) <= 2,
   active |-> FALSE]

\* renderNodes(tree): the ul, as the a elements in it in document order.
RenderNodes(T, hs) ==
  LET order == PreOrder(T, Forest(T))
  IN [j \in 1..Len(order) |-> Anchor(T, hs, order[j])]

\* The a elements in the nav: outline o, position j.
Anchors(nav) == UNION { { <<o, j>> : j \in DOMAIN nav[o] } : o \in DOMAIN nav }

\* As WithClass, leaving the markers that are there.
WithClassKept(nav, marked) ==
  [o \in DOMAIN nav |->
     [j \in DOMAIN nav[o] |->
        [nav[o][j] EXCEPT !.active = (@ \/ <<o, j>> \in marked)]]]

\* classList.remove('active') on the marked links, classList.add('active')
\* on the links in marked.
WithClass(nav, marked) ==
  [o \in DOMAIN nav |->
     [j \in DOMAIN nav[o] |-> [nav[o][j] EXCEPT !.active = (<<o, j>> \in marked)]]]

SetActiveAlways(nav, lastActiveId, id) ==
  LET wasActive == { a \in Anchors(nav) : nav[a[1]][a[2]].active }
      matching == IF Truthy(id)
                  THEN { a \in Anchors(nav) : nav[a[1]][a[2]].href = <<"#">> \o id }
                  ELSE {}
  IN [nav |-> WithClass(nav, matching), lastActiveId |-> id,
      removed |-> Cardinality(wasActive), added |-> Cardinality(matching)]

\* setActive(id): removed and added count the calls of classList.remove
\* and classList.add it made.
SetActive(nav, lastActiveId, id) ==
  LET wasActive == { a \in Anchors(nav) : nav[a[1]][a[2]].active }
      matching == IF Truthy(id)
                  THEN { a \in Anchors(nav) : nav[a[1]][a[2]].href = <<"#">> \o id }
                  ELSE {}
  IN IF lastActiveId = id
     THEN [nav |-> nav, lastActiveId |-> lastActiveId, removed |-> 0, added |-> 0]
     ELSE [nav |-> WithClass(nav, matching), lastActiveId |-> id,
           removed |-> Cardinality(wasActive), added |-> Cardinality(matching)]

\* The for loop of computeActive from position i on, with its break.
RECURSIVE ScanFrom(_, _, _, _)
ScanFrom(hs, i, scrollPos, active) ==
  IF i > Len(hs) THEN active
  ELSE IF hs[i].offsetTop <= scrollPos + 10
       THEN ScanFrom(hs, i + 1, scrollPos, hs[i].id)
       ELSE active

ComputedFallbackLast(hs, scrollPos) ==
  LET active == ScanFrom(hs, 1, scrollPos, Null)
  IN IF ~Truthy(active) /\ Len(hs) > 0 THEN hs[Len(hs)].id ELSE active

\* The identifier computeActive passes to setActive.
Computed(hs, scrollPos) ==
  LET active == ScanFrom(hs, 1, scrollPos, Null)
  IN IF ~Truthy(active) /\ Len(hs) > 0 THEN hs[1].id ELSE active

\* window.scrollY || document.documentElement.scrollTop || 0
ScrollPos(D) == IF D.scrollY # 0 THEN D.scrollY ELSE 0

\* The heading elements closure n holds, as they are now.
HeadingsOf(D, n) ==
  [i \in 1..Len(D.highlighters[n].headings) |-> D.headings[D.highlighters[n].headings[i]]]

\* computeActive() of closure n, run for the given reason.
ComputeActive(D, n, trigger) ==
  LET hs == HeadingsOf(D, n)
      id == Computed(hs, ScrollPos(D))
      r == SetActive(D.tocNav, D.highlighters[n].lastActiveId, id)
  IN [D EXCEPT !.tocNav = r.nav,
               !.highlighters[n].lastActiveId = r.lastActiveId,
               !.lastEval = [done |-> TRUE, by |-> n, trigger |-> trigger,
                             scrollPos |-> ScrollPos(D), headings |-> hs,
                             computed |-> id,
                             previous |-> D.highlighters[n].lastActiveId,
                             stored |-> r.lastActiveId,
                             before |-> D.tocNav, after |-> r.nav,
                             removed |-> r.removed, added |-> r.added]]

Bump(D, counter) == [D EXCEPT !.counts[counter] = @ + 1]

\* setupHighlight(headings, tocEl): a new closure over the heading elements
\* at the given positions, its first evaluation, and its two listeners.
SetupHighlight(D, positions) ==
  LET n == Len(D.highlighters) + 1
      made == [D EXCEPT !.highlighters =
                 Append(@, [lastActiveId |-> Null, ticking |-> FALSE,
                            headings |-> positions])]
  IN Bump(ComputeActive(made, n, "attach"), "attach")

ScrollListenerUnthrottled(D, n) ==
  [D EXCEPT !.frameCallbacks = Append(@, n), !.highlighters[n].ticking = TRUE]

\* The scroll listener of closure n.
ScrollListener(D, n) ==
  IF ~D.highlighters[n].ticking
  THEN [D EXCEPT !.frameCallbacks = Append(@, n), !.highlighters[n].ticking = TRUE]
  ELSE D

\* As FrameCallback, leaving ticking as it is.
FrameCallbackKeepsTicking(D, n) ==
  Bump(ComputeActive(D, n, "scroll"), "scrollEvals")

\* The callback closure n gave to requestAnimationFrame.
FrameCallback(D, n) ==
  [Bump(ComputeActive(D, n, "scroll"), "scrollEvals")
     EXCEPT !.highlighters[n].ticking = FALSE]

\* The resize listener of closure n: computeActive itself.
ResizeListener(D, n) == Bump(ComputeActive(D, n, "resize"), "resizeEvals")

\* A scroll event: the scroll listeners run in the order they were added.
RECURSIVE DispatchScroll(_, _)
DispatchScroll(D, n) ==
  IF n > Len(D.highlighters) THEN D
  ELSE DispatchScroll(ScrollListener(D, n), n + 1)

RECURSIVE DispatchResize(_, _)
DispatchResize(D, n) ==
  IF n > Len(D.highlighters) THEN D
  ELSE DispatchResize(ResizeListener(D, n), n + 1)

\* An animation frame runs the callbacks that were pending when it began.
RECURSIVE RunFrame(_, _)
RunFrame(D, pending) ==
  IF pending = <<>> THEN D
  ELSE RunFrame(FrameCallback(D, Head(pending)), Tail(pending))

\* The record of the state, and the state of a record.
Toc ==
  [headings |-> headings, tree |-> tree, ensured |-> ensured,
   scrollY |-> scrollY, tocNav |-> tocNav, highlighters |-> highlighters,
   frameCallbacks |-> frameCallbacks, lastEval |-> lastEval, counts |-> counts,
   container |-> container, body |-> body, localStorage |-> localStorage,
   clickListeners |-> clickListeners, lastClick |-> lastClick]

CommitToc(D) ==
  /\ headings' = D.headings
  /\ tree' = D.tree
  /\ ensured' = D.ensured
  /\ scrollY' = D.scrollY
  /\ tocNav' = D.tocNav
  /\ highlighters' = D.highlighters
  /\ frameCallbacks' = D.frameCallbacks
  /\ lastEval' = D.lastEval
  /\ counts' = D.counts
  /\ container' = D.container
  /\ body' = D.body
  /\ localStorage' = D.localStorage
  /\ clickListeners' = D.clickListeners
  /\ lastClick' = D.lastClick
  /\ UNCHANGED <<loaderVars, cssVars, iconVars>>

-----------------------------------------------------------------------------
(* The highlighter on its own: a page of up to MaxOffsets headings at any  *)
(* offsets, in any order, whose outline has been rendered; setupHighlight  *)
(* is called once, then the page is scrolled and resized.                  *)

MaxOffsets == 3
MaxScrolls == 2
MaxResizes == 1

OffsetValues == {0, 100, 500, 1200}

ScrollPositions == {0, 90, 600, 1300}

\* The heading at position i: its text is i letters, its identifier the
\* slug ensureIds made of it.
HighlightHeading(i, offsetTop) ==
  [tagName |-> "H2", textContent |-> [j \in 1..i |-> "A"],
   id |-> [j \in 1..i |-> "a"], offsetTop |-> offsetTop]

HighlightPages ==
  { [i \in 1..Len(offsets) |-> HighlightHeading(i, offsets[i])] :
      offsets \in UNION { [1..n -> OffsetValues] : n \in 0..MaxOffsets } }

\* A narrower window: the text above each heading takes more lines.
Taller(offsetTop) ==
  CASE offsetTop = 0 -> 0
    [] offsetTop = 100 -> 500
    [] OTHER -> 1200

Reflow(hs) == [i \in 1..Len(hs) |-> [hs[i] EXCEPT !.offsetTop = Taller(@)]]

AttachHighlight ==
  /\ highlighters = <<>>
  /\ CommitToc(SetupHighlight(Toc, [i \in 1..Len(headings) |-> i]))

ScrollEvent ==
  /\ highlighters # <<>>
  /\ counts.scrolls < MaxScrolls
  /\ \E y \in ScrollPositions \ {scrollY} :
       CommitToc(DispatchScroll(Bump([Toc EXCEPT !.scrollY = y], "scrolls"), 1))

AnimationFrame ==
  /\ frameCallbacks # <<>>
  /\ CommitToc(RunFrame(Bump([Toc EXCEPT !.frameCallbacks = <<>>], "frames"),
                        frameCallbacks))

ResizeEvent ==
  /\ highlighters # <<>>
  /\ counts.resizes < MaxResizes
  /\ \E hs \in {headings, Reflow(headings)} :
       CommitToc(DispatchResize(Bump([Toc EXCEPT !.headings = hs], "resizes"), 1))

InitHighlight ==
  /\ headings \in HighlightPages
  /\ tree = BuildTree(headings)
  /\ ensured = [ran |-> TRUE, before |-> headings]
  /\ scrollY \in ScrollPositions
  /\ tocNav = <<RenderNodes(tree, headings)>>
  /\ highlighters = <<>>
  /\ frameCallbacks = <<>>
  /\ lastEval = NoEval
  /\ counts = NoCounts
  /\ InitPageIdle
  /\ InitLoaderIdle
  /\ InitCss
  /\ InitIconsIdle

NextHighlight ==
  \/ AttachHighlight
  \/ ScrollEvent
  \/ AnimationFrame
  \/ ResizeEvent

SpecHighlight == InitHighlight /\ [][NextHighlight]_vars

-----------------------------------------------------------------------------
(* Reading an evaluation.                                                  *)

Qualifies(h, scrollPos) == h.offsetTop <= scrollPos + 10

\* The last heading in document order that qualifies, or 0.
LastQualifying(hs, scrollPos) ==
  LET q == {i \in 1..Len(hs) : Qualifies(hs[i], scrollPos)}
  IN IF q = {} THEN 0 ELSE CHOOSE i \in q : \A j \in q : j <= i

\* The positions of the headings that carry an identifier.
Carrying(hs, id) == {i \in 1..Len(hs) : hs[i].id = id}

Offsets(hs) == [i \in 1..Len(hs) |-> hs[i].offsetTop]

-----------------------------------------------------------------------------
(* C14 as stated: every evaluation of computeActive selects the identifier *)
(* of the last heading in document order whose offset is at most the       *)
(* scroll position plus 10, whatever the offsets, and the first heading    *)
(* when none qualifies; with offsets [0, 500, 1200], scroll 600 gives the  *)
(* heading at 500, scroll 0 the heading at 0, a scroll past 1200 the last. *)
C14_LastQualifyingHeading ==
  lastEval.done =>
    LET hs == lastEval.headings
        k == LastQualifying(hs, lastEval.scrollPos)
    IN /\ lastEval.computed =
            IF k # 0 THEN hs[k].id ELSE IF hs # <<>> THEN hs[1].id ELSE Null
       /\ Offsets(hs) = <<0, 500, 1200>> =>
            /\ lastEval.scrollPos = 600 => lastEval.computed = hs[2].id
            /\ lastEval.scrollPos = 0 => lastEval.computed = hs[1].id
            /\ lastEval.scrollPos > 1200 => lastEval.computed = hs[3].id

-----------------------------------------------------------------------------
(* C15: after every evaluation the active heading's offset is at most the  *)
(* scroll position read by the evaluation plus 10, unless the first        *)
(* heading itself lies below that line: then the first heading is active.  *)
(* There is no active identifier only when there are no headings.          *)
C15_ActiveNotBelowUnlessFirst ==
  lastEval.done =>
    LET hs == lastEval.headings
    IN /\ (lastEval.computed = Null) = (hs = <<>>)
       /\ lastEval.computed = lastEval.stored
       /\ \A i \in Carrying(hs, lastEval.computed) :
            \/ Qualifies(hs[i], lastEval.scrollPos)
            \/ i = 1 /\ ~Qualifies(hs[1], lastEval.scrollPos)

\* A scroll to a position above the first heading: the frame's evaluation
\* falls back to the first heading, which lies below; two headings.
C15_Witness ==
  /\ lastEval.done
  /\ lastEval.trigger = "scroll"
  /\ Len(lastEval.headings) >= 2
  /\ ~Qualifies(lastEval.headings[1], lastEval.scrollPos)
  /\ lastEval.computed = lastEval.headings[1].id

\* C15 as stated: the active heading's offset is at most the scroll
\* position at the time of the evaluation plus the tolerance.
C15_AsStated ==
  lastEval.done =>
    \A i \in Carrying(lastEval.headings, lastEval.computed) :
      lastEval.headings[i].offsetTop <= lastEval.scrollPos + 10

-----------------------------------------------------------------------------
(* C16: an evaluation whose computed identifier equals the stored one      *)
(* leaves the outline and the stored identifier as they were, adding and   *)
(* removing no marker; markers change only when the identifiers differ.    *)
C16_SameIdNoDomChange ==
  lastEval.done =>
    /\ lastEval.computed = lastEval.previous =>
         /\ lastEval.after = lastEval.before
         /\ lastEval.stored = lastEval.previous
         /\ lastEval.removed = 0
         /\ lastEval.added = 0
    /\ (lastEval.removed > 0 \/ lastEval.added > 0 \/ lastEval.after # lastEval.before) =>
         lastEval.computed # lastEval.previous

\* A scroll inside one section: the frame's evaluation computes the
\* identifier that is already marked.
C16_Witness ==
  /\ lastEval.done
  /\ lastEval.trigger = "scroll"
  /\ lastEval.computed = lastEval.previous
  /\ \E a \in Anchors(tocNav) :
       /\ tocNav[a[1]][a[2]].active
       /\ tocNav[a[1]][a[2]].href = <<"#">> \o lastEval.computed

-----------------------------------------------------------------------------
(* C17: the highlighter evaluates once on attach and once per resize       *)
(* event; at most one frame callback is pending at any time, and the       *)
(* scroll-triggered evaluations never outnumber the frames that have run.  *)
C17_ScrollThrottled ==
  /\ counts.attach = Len(highlighters)
  /\ counts.attach <= 1
  /\ counts.resizeEvals = counts.resizes
  /\ Len(frameCallbacks) <= 1
  /\ counts.scrollEvals <= counts.frames
  /\ \A n \in 1..Len(highlighters) :
       highlighters[n].ticking = (frameCallbacks = <<n>>)

\* Two scroll events before one frame: one evaluation for the burst.
C17_Witness ==
  /\ counts.attach = 1
  /\ counts.resizes = 1
  /\ counts.scrolls = 2
  /\ counts.frames = 1
  /\ counts.scrollEvals = 1
  /\ frameCallbacks = <<>>

-----------------------------------------------------------------------------
(* init and the toggle button.                                             *)

RestoreStateSkipped(D) == D

\* restoreState()
RestoreState(D) ==
  IF D.localStorage = "true" THEN [D EXCEPT !.body.shown = TRUE] ELSE D

\* createToggleButton()
CreateToggleButton(D) ==
  IF D.body.buttons = 0 THEN [D EXCEPT !.body.buttons = 1] ELSE D

\* setupToggle(btn)
SetupToggle(D) == [D EXCEPT !.clickListeners = @ + 1]

\* createSidebar(): a nav it makes has no children yet.
CreateSidebar(D) ==
  LET withAside == IF D.body.asides = 0 THEN [D EXCEPT !.body.asides = 1] ELSE D
  IN IF withAside.body.navs = 0
     THEN [withAside EXCEPT !.body.navs = 1, !.tocNav = <<>>]
     ELSE withAside

DaftarIsiId == <<"d", "a", "f", "t", "a", "r", "-", "i", "s", "i">>

DaftarIsiText == <<"d", "a", "f", "t", "a", "r", " ", "i", "s", "i">>

\* h.id !== 'daftar-isi' && (h.textContent || '').trim().toLowerCase() !== 'daftar isi'
InSidebar(h) ==
  h.id # DaftarIsiId /\ ToLowerCase(Trim(h.textContent)) # DaftarIsiText

\* allHeadings.filter(...), as the positions of the headings it keeps
RECURSIVE Filter(_, _)
Filter(hs, i) ==
  IF i > Len(hs) THEN <<>>
  ELSE (IF InSidebar(hs[i]) THEN <<i>> ELSE <<>>) \o Filter(hs, i + 1)

\* init(); suffixes[i] is what Math.random() gives ensureIds for heading i.
init(D, suffixes) ==
  IF ~D.container THEN Bump(D, "inits")
  ELSE
    LET sidebar == CreateSidebar(SetupToggle(CreateToggleButton(RestoreState(D))))
        allHeadings == EnsureIds(D.headings, suffixes)
        positions == Filter(allHeadings, 1)
        kept == [i \in 1..Len(positions) |-> allHeadings[positions[i]]]
        T == BuildTree(kept)
        rendered == [sidebar EXCEPT !.headings = allHeadings,
                                    !.ensured = [ran |-> TRUE, before |-> D.headings],
                                    !.tree = T,
                                    !.tocNav = <<RenderNodes(T, kept)>>]
    IN Bump(SetupHighlight(rendered, positions), "inits")

\* One click listener of the toggle button.
ClickListener(D) ==
  IF D.body.shown
  THEN [D EXCEPT !.body.shown = FALSE, !.localStorage = "false"]
  ELSE [D EXCEPT !.body.shown = TRUE, !.localStorage = "true"]

\* A click on the toggle button runs the k listeners it has.
RECURSIVE DispatchClick(_, _)
DispatchClick(D, k) ==
  IF k = 0 THEN D ELSE DispatchClick(ClickListener(D), k - 1)

-----------------------------------------------------------------------------
(* The script on a page: init is invoked when the script runs, and again   *)
(* each time the script is run again on the same page; the reader clicks   *)
(* the toggle, scrolls and resizes.                                        *)

MaxInits == 2
MaxClicks == 2

PageHeading(tagName, textContent, id, offsetTop) ==
  [tagName |-> tagName, textContent |-> textContent, id |-> id,
   offsetTop |-> offsetTop]

\* No heading; two headings without identifiers; two headings with the same
\* text and a third; an inline contents section, a heading with its own
\* identifier and one whose slug is empty.
TocPages ==
  { <<>>,
    << PageHeading("H1", <<"A">>, <<>>, 0),
       PageHeading("H2", <<"A", " ", "A">>, <<>>, 500) >>,
    << PageHeading("H2", <<"A">>, <<>>, 0),
       PageHeading("H2", <<"A">>, <<>>, 100),
       PageHeading("H2", <<"A", " ", "A">>, <<>>, 500) >>,
    << PageHeading("H2", DaftarIsiText, <<>>, 0),
       PageHeading("H1", <<"A">>, <<"X">>, 100),
       PageHeading("H3", <<"!">>, <<>>, 1200) >> }

CallInit ==
  /\ counts.inits < MaxInits
  /\ \E suffixes \in [1..Len(headings) -> RandomSuffixes] :
       CommitToc(init(Toc, suffixes))

Click ==
  /\ body.buttons > 0
  /\ counts.clicks < MaxClicks
  /\ LET D == DispatchClick(Bump(Toc, "clicks"), clickListeners)
     IN CommitToc([D EXCEPT !.lastClick =
                     [done |-> TRUE, was |-> body.shown, now |-> D.body.shown,
                      stored |-> D.localStorage, reloads |-> counts.reloads,
                      listeners |-> clickListeners, inits |-> counts.inits]])

InitToc ==
  /\ container \in BOOLEAN
  /\ headings \in TocPages
  /\ localStorage \in {"null", "true", "false"}
  /\ body \in { [EmptyBody EXCEPT !.shown = shown] : shown \in BOOLEAN }
  /\ clickListeners = 0
  /\ lastClick = NoClick
  /\ tree = NoTree
  /\ ensured = NotEnsured
  /\ InitHighlightIdle
  /\ InitLoaderIdle
  /\ InitCss
  /\ InitIconsIdle

NextToc ==
  \/ CallInit
  \/ Click
  \/ ScrollEvent
  \/ AnimationFrame
  \/ ResizeEvent

SpecToc == InitToc /\ [][NextToc]_vars

-----------------------------------------------------------------------------
(* C20 as stated: after any number of invocations of init on a page there  *)
(* is exactly one toggle control, one sidebar and one navigation element   *)
(* holding exactly one rendered outline, and one click on the toggle flips *)
(* the sidebar's visibility once, as after a single invocation.            *)
C20_ReinitIdempotent ==
  (container /\ counts.inits >= 1) =>
    /\ body.buttons = 1
    /\ body.asides = 1
    /\ body.navs = 1
    /\ Len(tocNav) = 1
    /\ lastClick.done => lastClick.now # lastClick.was

-----------------------------------------------------------------------------
(* The script as the page loads it: icons.js:391 loads it once per         *)
(* document, so init runs once on each document of the page; the reader    *)
(* clicks the toggle and reloads the page.  A reload gives a new document  *)
(* from the page's markup; what is in localStorage stays.  Nothing but     *)
(* restoreState and the click listener sets the body's attribute, so a new *)
(* document is without it.                                                 *)

MaxReloads == 2

\* The headings as the page's markup has them.
Markup(D) == IF D.ensured.ran THEN D.ensured.before ELSE D.headings

\* The document a reload of the page gives.
FreshDocument(D) ==
  [D EXCEPT !.headings = Markup(D), !.tree = NoTree, !.ensured = NotEnsured,
            !.scrollY = 0, !.tocNav = <<>>, !.highlighters = <<>>,
            !.frameCallbacks = <<>>, !.lastEval = NoEval,
            !.counts = [NoCounts EXCEPT !.reloads = D.counts.reloads + 1],
            !.body = EmptyBody, !.clickListeners = 0]

\* The script runs on the document: init(), now or on DOMContentLoaded.
RunScript ==
  /\ counts.inits = 0
  /\ \E suffixes \in [1..Len(headings) -> RandomSuffixes] :
       CommitToc(init(Toc, suffixes))

Reload ==
  /\ counts.reloads < MaxReloads
  /\ CommitToc(FreshDocument(Toc))

InitReload ==
  /\ container \in BOOLEAN
  /\ headings \in TocPages
  /\ localStorage \in {"null", "true", "false"}
  /\ body = EmptyBody
  /\ clickListeners = 0
  /\ lastClick = NoClick
  /\ tree = NoTree
  /\ ensured = NotEnsured
  /\ InitHighlightIdle
  /\ InitLoaderIdle
  /\ InitCss
  /\ InitIconsIdle

NextReload ==
  \/ RunScript
  \/ Click
  \/ Reload

SpecReload == InitReload /\ [][NextReload]_vars

-----------------------------------------------------------------------------
-----------------------------------------------------------------------------
(* C22 as stated: when loadScript adopts a script element of the page that *)
(* has not fired its load event yet, every callback registered for the URL *)
(* before that event, by the adopting call or by a later one, with or      *)
(* without a callback in the adopting call, has been invoked exactly once  *)
(* when the event has fired.  (A later call that found the adopted element *)
(* still loading shows that the event came after the adoption.)            *)
C22_AdoptedElementRunsCallbacks ==
  \A key \in DOMAIN loadedScripts :
    LET el == loadedScripts[key].element
    IN (/\ el # 0
        /\ document[el].by = "page"
        /\ document[el].status = "loaded"
        /\ \E j \in CallIds : calls[j].key = key /\ calls[j].status = "loading") =>
         \A i \in CallIds :
           (calls[i].cb # 0 /\ Before(key, calls[i])) =>
             TimesInvoked(calls[i].cb) = 1

-----------------------------------------------------------------------------
(* Callbacks that call loadScript themselves (icons.js:33-118): the page   *)
(* passes, for one URL, no callback, a plain one, or one that registers a  *)
(* further callback for the same URL when it runs.                         *)

ReenterKinds == {"none", "plain", "reenter"}

\* The page calls loadScript('a.b', callback, checkVariable).
CallReentrant ==
  \E kind \in ReenterKinds, checkVariable \in CheckVariables :
    LET src == <<"a", ".", "b">>
    IN /\ Len(PageCalls(calls)) < MaxCalls
       /\ Commit(Call(St, src, Callback(Len(PageCalls(calls)) + 1, kind, src),
                      checkVariable, "page"))
       /\ UNCHANGED <<cssVars, iconVars, tocVars>>

InitReenter == InitLoader /\ InitCss /\ InitIconsIdle /\ InitTocIdle

NextReenter ==
  \/ CallReentrant
  \/ ScriptLoad
  \/ ScriptError
  \/ TimerFire
  \/ SetGlobal

SpecReenter == InitReenter /\ [][NextReenter]_vars

\* The call registered its callback after the load event of its URL's
\* element was handled: the element was loaded already, and a call made from
\* inside a callback was made by a queued one, that is while the queue was
\* being drained (the creating call's own callback runs before the drain).
Late(c) ==
  /\ c.cb # 0
  /\ ~c.ready
  /\ c.status = "loaded"
  /\ c.from = "callback" => CallOf(0 - c.cb).created = 0

\* No task of the event loop is left that could invoke anything.
Quiescent ==
  /\ timers = <<>>
  /\ \A el \in Elements : document[el].status # "loading"

(* C23: a callback registered after the load event of its URL was handled  *)
(* (also from inside a callback while the queue is drained), no readiness  *)
(* global being set at the call, creates no element and is put in the      *)
(* queue; no load or error event invokes it, and it stays queued, unless    *)
(* the element was adopted from the document and the adopting call's      *)
(* timer finds its readiness global set: that timer invokes it, once.      *)
C23_LateCallbackOnlyByFallback ==
  \A i \in CallIds :
    LET c == calls[i]
    IN Late(c) =>
         /\ c.created = 0
         /\ c.queued
         /\ TimesInvoked(c.cb) <= 1
         /\ TimesInvoked(c.cb) = 0 =>
              \E k \in 1..Len(QueueIds(c.key)) : QueueIds(c.key)[k] = c.cb
         /\ \A k \in 1..Len(invoked) :
              invoked[k].cb = c.cb =>
                /\ invoked[k].via = "fallback"
                /\ "mermaid" \in window
                /\ \E j \in CallIds :
                     Adopting(c.key, calls[j]) /\ calls[j].chk = "mermaid"

\* A callback registered while the queue was drained is still queued when
\* nothing is left to run.
C23_Witness ==
  /\ Quiescent
  /\ \E i \in CallIds :
       /\ Late(calls[i])
       /\ calls[i].from = "callback"
       /\ CreatedFor(calls[i].key) # {}
       /\ TimesInvoked(calls[i].cb) = 0

\* C23 as stated: the late callback is never invoked.
C23_AsStated ==
  \A i \in CallIds :
    Late(calls[i]) =>
      /\ calls[i].created = 0
      /\ calls[i].queued
      /\ TimesInvoked(calls[i].cb) = 0

-----------------------------------------------------------------------------
(* C24: a failed resolution is cached like a successful one.  A loader     *)
(* invocation for a key whose task had failed on every candidate gets that *)
(* task's promise, already resolved to the empty payload; it starts no     *)
(* task and no fetch, so every candidate stays fetched once.               *)
C24_FailureCached ==
  \A b \in 1..Len(loads) :
    loads[b].failed =>
      LET T == tasks[loads[b].promise]
      IN /\ loads[b].hit
         /\ loads[b].idle
         /\ loads[b].phase = "fulfilled"
         /\ SameKey(loads[b], T)
         /\ AllFailed(T)
         /\ T.phase = "fulfilled"
         /\ T.value = EmptyPayload
         /\ T.fetched = Candidates(T)

\* The default candidates of a pack all failed; two later invocations of its
\* loader got the resolved promise.
C24_Witness ==
  \E a, b \in 1..Len(loads) :
    /\ a < b
    /\ loads[a].failed
    /\ loads[b].failed
    /\ SameKey(loads[a], loads[b])
    /\ Len(loads[a].versions) = 3

-----------------------------------------------------------------------------
(* The highlighter on the script's pages: init is invoked, and invoked     *)
(* again when the script runs again; the reader scrolls and resizes.       *)

InitMarker ==
  /\ container = TRUE
  /\ headings \in TocPages
  /\ localStorage = "null"
  /\ body = EmptyBody
  /\ clickListeners = 0
  /\ lastClick = NoClick
  /\ tree = NoTree
  /\ ensured = NotEnsured
  /\ InitHighlightIdle
  /\ InitLoaderIdle
  /\ InitCss
  /\ InitIconsIdle

NextMarker ==
  \/ CallInit
  \/ ScrollEvent
  \/ AnimationFrame
  \/ ResizeEvent

SpecMarker == InitMarker /\ [][NextMarker]_vars

(* C25: in every state after an evaluation of the highlighter, the links   *)
(* of the outline that carry the marker are exactly those whose target is  *)
(* '#' followed by the identifier the evaluation stored, none when that is *)
(* null; marked links never point to two different identifiers.            *)
Marked(nav) == { a \in Anchors(nav) : nav[a[1]][a[2]].active }

Targeting(nav, id) ==
  IF Truthy(id)
  THEN { a \in Anchors(nav) : nav[a[1]][a[2]].href = <<"#">> \o id }
  ELSE {}

C25_MarkedLinksAreTheActiveOnes ==
  lastEval.done =>
    /\ Marked(tocNav) = Targeting(tocNav, lastEval.stored)
    /\ \A a, b \in Marked(tocNav) :
         tocNav[a[1]][a[2]].href = tocNav[b[1]][b[2]].href

\* The page was scrolled back to the top section, whose two headings share
\* an identifier: the frame's evaluation moved the marker to their two links.
C25_Witness ==
  /\ lastEval.done
  /\ lastEval.trigger = "scroll"
  /\ lastEval.stored # lastEval.previous
  /\ lastEval.previous # Null
  /\ Cardinality(Marked(tocNav)) = 2
  /\ Cardinality(Anchors(tocNav)) = 3

-----------------------------------------------------------------------------
(* The highlighter when animation frames keep running: callbacks given to  *)
(* requestAnimationFrame do not wait for ever.                             *)

\* The pending frame callbacks have been run: of the steps of the
\* highlighter, those of AnimationFrame.
FrameRuns == frameCallbacks # <<>> /\ frameCallbacks' = <<>>

\* No heading; three sections; a page whose first heading lies below the
\* top of the window.
FramePages ==
  { [i \in 1..Len(offsets) |-> HighlightHeading(i, offsets[i])] :
      offsets \in { <<>>, <<0, 500, 1200>>, <<100, 500>> } }

InitFrames ==
  /\ headings \in FramePages
  /\ tree = BuildTree(headings)
  /\ ensured = [ran |-> TRUE, before |-> headings]
  /\ scrollY \in ScrollPositions
  /\ tocNav = <<RenderNodes(tree, headings)>>
  /\ highlighters = <<>>
  /\ frameCallbacks = <<>>
  /\ lastEval = NoEval
  /\ counts = NoCounts
  /\ InitPageIdle
  /\ InitLoaderIdle
  /\ InitCss
  /\ InitIconsIdle

SpecFrames ==
  InitFrames /\ [][NextHighlight]_vars /\ WF_frameCallbacks(FrameRuns)

\* The closure waits for a frame.
Ticking == highlighters # <<>> /\ highlighters[1].ticking

\* The last evaluation ran in a frame and read the scroll position the
\* window has.
EvaluatedInFrame ==
  /\ lastEval.done
  /\ lastEval.trigger = "scroll"
  /\ lastEval.scrollPos = ScrollPos(Toc)

\* The stored identifier is the one computeActive selects for the headings
\* and the scroll position as they are.
Settled ==
  highlighters # <<>> =>
    /\ ~highlighters[1].ticking
    /\ frameCallbacks = <<>>
    /\ highlighters[1].lastActiveId = Computed(HeadingsOf(Toc, 1), ScrollPos(Toc))

(* C26: the throttle loses no scroll position.  While frames keep running, *)
(* a scroll event is followed by a frame whose evaluation reads the scroll *)
(* position the window has at that frame; ticking always returns to false; *)
(* and once the scrolling has stopped the stored identifier stays the one  *)
(* computeActive selects for the final scroll position.                    *)
C26_ThrottleKeepsFinalPosition ==
  /\ Ticking ~> (~Ticking /\ EvaluatedInFrame)
  /\ <>[]Settled

\* Two scroll events before one frame, the second one dropped by the
\* throttle: the frame's evaluation read the final position and moved the
\* marker.
C26_Witness ==
  /\ counts.scrolls = 2
  /\ counts.frames = 1
  /\ counts.resizes = 0
  /\ ~Ticking
  /\ EvaluatedInFrame
  /\ Settled
  /\ lastEval.stored # lastEval.previous

=============================================================================
